---------------------------- MODULE Spec2Model ----------------------------
(***************************************************************************)
(* A model of the Texas Hold'em equity engine of poker_logic.py            *)
(* (card_str_to_deuces_card, get_hand_strength, run_simulation) and of the *)
(* card constants and the window, PokerOddsApp, of app.py.                 *)
(*                                                                         *)
(* A card text is a sequence of one-character strings, <<"A", "s">> for    *)
(* "As", so that the rank and the suit character are looked up as the      *)
(* code looks them up.  A card is the 32-bit integer deuces.Card.new       *)
(* builds.                                                                 *)
(***************************************************************************)
EXTENDS Integers, Sequences, FiniteSets, TLC

(***************************************************************************)
(* Bounds of the model.                                                    *)
(***************************************************************************)
\* num_simulations is drawn from 0..MaxTrials
MaxTrials == 2
\* the shuffles a fresh Deck() may come up with: Shuffle(0..NumShuffles-1)
NumShuffles == 2
\* num_total_players is drawn from 0..MaxSmallPlayers, and is MAX_TABLE,
\* TooManyPlayers - 3 or TooManyPlayers in the calls of TableCalls, BigCalls
MaxSmallPlayers == 3
\* a player count whose hole cards alone outnumber the deck
TooManyPlayers == 27

(***************************************************************************)
(* Program constants.                                                      *)
(***************************************************************************)
\* len(Deck().cards): 13 ranks in 4 suits
DECK_SIZE == 52
\* the community board of a trial: while len(sim_community_cards) < 5
BOARD_SIZE == 5
\* the hole cards of a player: while len(sim_player_hands[p_idx]) < 2
HOLE_SIZE == 2
\* 1 hero + 8 opponents, the largest table the UI asks for
MAX_TABLE == 9

(***************************************************************************)
(* deuces.Card                                                             *)
(***************************************************************************)
STR_RANKS == <<"2", "3", "4", "5", "6", "7", "8", "9", "T", "J", "Q", "K", "A">>

PRIMES == <<2, 3, 5, 7, 11, 13, 17, 19, 23, 29, 31, 37, 41>>

\* the keys of Card.CHAR_SUIT_TO_INT_SUIT in the order the dict lists them
SUIT_CHARS == <<"s", "h", "d", "c">>

CHAR_SUIT_TO_INT_SUIT == [c \in {"s", "h", "d", "c"} |->
    CASE c = "s" -> 1 [] c = "h" -> 2 [] c = "d" -> 4 [] c = "c" -> 8]

\* Card.CHAR_RANK_TO_INT_RANK = dict(zip(list(STR_RANKS), range(13)))
CHAR_RANK_TO_INT_RANK == [c \in {STR_RANKS[i] : i \in 1..13} |->
    (CHOOSE i \in 1..13 : STR_RANKS[i] = c) - 1]

\* 1 << n
RECURSIVE Pow2(_)
Pow2(n) == IF n = 0 THEN 1 ELSE 2 * Pow2(n - 1)

\* Card.new(string): bitrank | suit | rank | rank_prime, or the KeyError of a
\* character that is no key of the rank / suit dict (card "raise" holds it)
CardNewRaises(string) ==
    \/ string[1] \notin DOMAIN CHAR_RANK_TO_INT_RANK
    \/ string[2] \notin DOMAIN CHAR_SUIT_TO_INT_SUIT

Card_new(string) ==
    LET rank_int == CHAR_RANK_TO_INT_RANK[string[1]]
        suit_int == CHAR_SUIT_TO_INT_SUIT[string[2]]
    IN Pow2(rank_int + 16) + suit_int * 4096 + rank_int * 256 + PRIMES[rank_int + 1]

\* Card.get_rank_int(card) = (card >> 8) & 0xF
get_rank_int(card) == (card \div 256) % 16

\* Card.get_suit_int(card) = (card >> 12) & 0xF
get_suit_int(card) == (card \div 4096) % 16

(***************************************************************************)
(* card_str_to_deuces_card: the card, or the ValueError it raises.         *)
(***************************************************************************)
Ok(card) == [raised |-> "none", card |-> card]

Raise(kind) == [raised |-> kind, card |-> 0]

card_str_to_deuces_card(card_str) ==
    IF Len(card_str) = 0 \/ Len(card_str) # 2
    THEN Raise("ValueError: invalid card string format")
    ELSE IF CardNewRaises(card_str)
         THEN Raise("ValueError: invalid card")
         ELSE Ok(Card_new(card_str))

(***************************************************************************)
(* deuces.Deck: GetFullDeck lists the ranks in STR_RANKS order and, within *)
(* a rank, the suits in the dict's order.  Deck() shuffles that list; the  *)
(* model lets a shuffle be one of NumShuffles permutations of it.          *)
(***************************************************************************)
GetFullDeck == [i \in 1..DECK_SIZE |->
    Card_new(<<STR_RANKS[((i - 1) \div 4) + 1], SUIT_CHARS[((i - 1) % 4) + 1]>>)]

\* the seed-th shuffle: the full deck read from position 7*seed in steps of
\* 4*seed+3 (a step that has no factor in common with 52)
Shuffle(seed) == [i \in 1..DECK_SIZE |->
    GetFullDeck[((7 * seed + (4 * seed + 3) * (i - 1)) % DECK_SIZE) + 1]]

\* lines 101-108: the shuffled deck without the known cards, order kept
RECURSIVE SelectNotIn(_, _)
SelectNotIn(cards, known) ==
    IF cards = <<>> THEN <<>>
    ELSE IF Head(cards) \in known
         THEN SelectNotIn(Tail(cards), known)
         ELSE <<Head(cards)>> \o SelectNotIn(Tail(cards), known)

SetOf(seq) == {seq[i] : i \in DOMAIN seq}

(***************************************************************************)
(* deuces.Evaluator.evaluate(cards, board): the rank of the best five-card *)
(* hand among cards + board, lower is stronger.  deuces answers with a     *)
(* number in 1..7462 from lookup tables; the model computes a number with  *)
(* the same order: equal for hands of equal rank, lower for the stronger.  *)
(* Only 5, 6 and 7 cards are keys of Evaluator.hand_size_map.              *)
(***************************************************************************)
Max(S) == CHOOSE x \in S : \A y \in S : y <= x

\* the k highest elements of R, highest first
RECURSIVE TopK(_, _)
TopK(R, k) == IF k = 0 \/ R = {} THEN <<>>
              ELSE <<Max(R)>> \o TopK(R \ {Max(R)}, k - 1)

\* a tiebreak list of at most five ranks as a base-13 number of five digits
RECURSIVE Key(_, _, _)
Key(seq, n, acc) ==
    IF n = 0 THEN acc
    ELSE IF seq = <<>> THEN Key(seq, n - 1, acc * 13)
         ELSE Key(Tail(seq), n - 1, acc * 13 + Head(seq))

\* the top rank of the best straight in the rank set R (3 for the wheel
\* A-2-3-4-5), or -1
StraightHigh(R) ==
    LET need(h) == IF h = 3 THEN {12, 0, 1, 2, 3} ELSE (h - 4)..h
        H == {h \in 3..12 : need(h) \subseteq R}
    IN IF H = {} THEN -1 ELSE Max(H)

\* the hand class (8 straight flush ... 0 high card) and its tiebreak ranks
HandValue(S) ==
    LET R == {get_rank_int(c) : c \in S}
        AtLeast(k) == {r \in R : Cardinality({c \in S : get_rank_int(c) = r}) >= k}
        flushSuits == {u \in {1, 2, 4, 8} :
                          Cardinality({c \in S : get_suit_int(c) = u}) >= 5}
        FR == {get_rank_int(c) : c \in {d \in S : get_suit_int(d) \in flushSuits}}
        sf == StraightHigh(FR)
        st == StraightHigh(R)
        quads == AtLeast(4)
        trips == AtLeast(3)
        pairs == AtLeast(2)
    IN IF sf >= 0 THEN <<8, <<sf>>>>
       ELSE IF quads # {}
       THEN <<7, <<Max(quads)>> \o TopK(R \ {Max(quads)}, 1)>>
       ELSE IF trips # {} /\ pairs \ {Max(trips)} # {}
       THEN <<6, <<Max(trips), Max(pairs \ {Max(trips)})>>>>
       ELSE IF flushSuits # {} THEN <<5, TopK(FR, 5)>>
       ELSE IF st >= 0 THEN <<4, <<st>>>>
       ELSE IF trips # {}
       THEN <<3, <<Max(trips)>> \o TopK(R \ {Max(trips)}, 2)>>
       ELSE IF Cardinality(pairs) >= 2
       THEN <<2, TopK(pairs, 2) \o TopK(R \ SetOf(TopK(pairs, 2)), 1)>>
       ELSE IF pairs # {}
       THEN <<1, <<Max(pairs)>> \o TopK(R \ pairs, 3)>>
       ELSE <<0, TopK(R, 5)>>

\* Evaluator.get_rank_class / class_to_string: the name of the hand class
RANK_CLASS_TO_STRING == <<"High Card", "Pair", "Two Pair", "Three of a Kind",
    "Straight", "Flush", "Full House", "Four of a Kind", "Straight Flush">>

\* the sizes that are keys of Evaluator.hand_size_map
HAND_SIZES == {5, 6, 7}

\* evaluate(cards, board): a KeyError for a size hand_size_map does not hold
EvaluateRaises(cards, board) == Len(cards) + Len(board) \notin HAND_SIZES

evaluate(cards, board) ==
    LET v == HandValue(SetOf(cards \o board))
    IN 9 * 371293 - (v[1] * 371293 + Key(v[2], 5, 0))

(***************************************************************************)
(* State.  The names are those of run_simulation's parameters and locals;  *)
(* pc is the place the call has reached, raised the exception that ended   *)
(* it.  card_str / card_result belong to a call of                         *)
(* card_str_to_deuces_card on its own, hole_cards_str / community_cards_str*)
(* / hand_result / evaluator_sizes to a call of get_hand_strength.  The     *)
(* last eight are the state of app.py's PokerOddsApp.                      *)
(***************************************************************************)
VARIABLES
    player_hands_str_initial, community_cards_str_initial,
    num_total_players, num_simulations,
    pc, raised,
    player_results, known_cards_deuces,
    player_hands_deuces_initial, community_cards_deuces_initial,
    trials_started, trials_done,
    current_deck_sim, sim_player_hands, sim_community_cards,
    player_scores, winners, final_results,
    card_str, card_result,
    hole_cards_str, community_cards_str, hand_result, evaluator_sizes,
    your_card_vars, community_card_vars,
    your_card_combos, community_card_combos,
    num_opponents_var, win_percentage_var, tie_percentage_var, messagebox

inputs == <<player_hands_str_initial, community_cards_str_initial,
            num_total_players, num_simulations>>

parsed == <<known_cards_deuces, player_hands_deuces_initial,
            community_cards_deuces_initial>>

trial == <<current_deck_sim, sim_player_hands, sim_community_cards>>

sim_vars == <<inputs, pc, raised, player_results, parsed, trials_started,
              trials_done, trial, player_scores, winners, final_results>>

card_vars == <<card_str, card_result>>

hand_vars == <<hole_cards_str, community_cards_str, hand_result, evaluator_sizes>>

\* app.py: the StringVars, the 'values' list of every Combobox, and the
\* message box shown last
ui_vars == <<your_card_vars, community_card_vars,
             your_card_combos, community_card_combos,
             num_opponents_var, win_percentage_var, tie_percentage_var,
             messagebox>>

vars == <<sim_vars, card_vars, hand_vars, ui_vars>>

NoError == [kind |-> "none", named |-> <<>>]

(***************************************************************************)
(* run_simulation, lines 68-96: the counters, then the known hole cards    *)
(* of players 0..num_total_players-1 and the known community cards are     *)
(* parsed in order; the first token that does not parse or repeats a card  *)
(* raises.  A blank token ("", here <<>>) is skipped.                      *)
(***************************************************************************)
\* lines 76-83 and 87-93: one list of tokens, given the cards known so far
RECURSIVE ParseCards(_, _, _)
ParseCards(tokens, known, acc) ==
    IF tokens = <<>>
    THEN [error |-> NoError, known |-> known, cards |-> acc]
    ELSE LET card_s == Head(tokens)
             card_d == card_str_to_deuces_card(card_s)
         IN IF card_s = <<>>
            THEN ParseCards(Tail(tokens), known, acc)
            ELSE IF card_d.raised # "none"
            THEN [error |-> [kind |-> card_d.raised, named |-> card_s],
                  known |-> known, cards |-> acc]
            ELSE IF card_d.card \in known
            THEN [error |-> [kind |-> "ValueError: duplicate card", named |-> card_s],
                  known |-> known, cards |-> acc]
            ELSE ParseCards(Tail(tokens), known \cup {card_d.card},
                            Append(acc, card_d.card))

\* lines 71-84: the hands of players p_idx.. (1-based), given those before
RECURSIVE ParseHands(_, _, _, _, _)
ParseHands(p_idx, n, hands_str, known, acc) ==
    IF p_idx > n
    THEN [error |-> NoError, known |-> known, hands |-> acc]
    ELSE LET tokens == IF p_idx <= Len(hands_str) THEN hands_str[p_idx] ELSE <<>>
             h == ParseCards(tokens, known, <<>>)
         IN IF h.error # NoError
            THEN [error |-> h.error, known |-> h.known, hands |-> acc]
            ELSE ParseHands(p_idx + 1, n, hands_str, h.known, Append(acc, h.cards))

\* the check of line 95 left out
NeverTooManyCommunity(cards) == FALSE

\* line 95: if len(community_cards_deuces_initial) > 5
TooManyCommunity(cards) == Len(cards) > BOARD_SIZE

Validate ==
    /\ pc = "call"
    /\ LET n == num_total_players
           hs == ParseHands(1, n, player_hands_str_initial, {}, <<>>)
           cs == ParseCards(community_cards_str_initial, hs.known, <<>>)
       IN /\ player_results' = [i \in 1..n |-> [wins |-> 0, ties |-> 0]]
          /\ player_hands_deuces_initial' = hs.hands
          /\ IF hs.error # NoError
             THEN /\ known_cards_deuces' = hs.known
                  /\ community_cards_deuces_initial' = <<>>
                  /\ raised' = hs.error
                  /\ pc' = "raised"
             ELSE /\ known_cards_deuces' = cs.known
                  /\ community_cards_deuces_initial' = cs.cards
                  /\ IF cs.error # NoError
                     THEN raised' = cs.error /\ pc' = "raised"
                     ELSE IF TooManyCommunity(cs.cards)
                     THEN /\ raised' = [kind |-> "ValueError: more than 5 community cards",
                                        named |-> <<>>]
                          /\ pc' = "raised"
                     ELSE raised' = NoError /\ pc' = "loop"
    /\ UNCHANGED <<inputs, trials_started, trials_done, trial, player_scores,
                   winners, final_results, card_vars, hand_vars, ui_vars>>

(***************************************************************************)
(* One trial, lines 99-143.                                                *)
(***************************************************************************)
\* line 99: current_deck_sim = Deck(), a fresh shuffled deck in every trial
Deck(seed) == Shuffle(seed)

\* the fresh deck used as it is, the known cards still in it
TrialDeckWithKnown(cards, known) == cards

\* the test of line 105 turned round: only the known cards are kept
TrialDeckOfKnown(cards, known) == SelectNotIn(cards, SetOf(cards) \ known)

\* lines 101-108: the trial's deck is the fresh deck without the known cards
TrialDeck(cards, known) == SelectNotIn(cards, known)

\* sim_player_hands holding the lists of known cards themselves, not copies:
\* what the trial appends is appended to the known hands
KnownHandsAliased(known_hands, dealt_hands) == dealt_hands

\* lines 110-111: the trial fills copies, list(h) and list(...); the lists of
\* known cards are other objects than the ones the trial appends to, and
\* stay as they are whatever the trial deals
KnownHandsAfterDeal(known_hands, dealt_hands) == known_hands

KnownBoardAfterDeal(known_board, dealt_board) == known_board

StartTrial ==
    /\ pc = "loop"
    /\ trials_started < num_simulations
    /\ \E seed \in 0..(NumShuffles - 1) :
          current_deck_sim' = TrialDeck(Deck(seed), known_cards_deuces)
    /\ sim_player_hands' = player_hands_deuces_initial
    /\ sim_community_cards' = community_cards_deuces_initial
    /\ trials_started' = trials_started + 1
    /\ pc' = "deal_hands"
    /\ UNCHANGED <<inputs, raised, player_results, parsed, trials_done,
                   player_scores, winners, final_results, card_vars, hand_vars, ui_vars>>

\* lines 114-121: every player in turn draws from the front of the deck
\* until the hand holds two cards; Deck.draw(1) on an empty deck is an
\* IndexError, raised again as an Exception
RECURSIVE FillHands(_, _, _)
FillHands(p_idx, hands, deck) ==
    IF p_idx > Len(hands)
    THEN [exhausted |-> FALSE, hands |-> hands, deck |-> deck]
    ELSE IF Len(hands[p_idx]) >= HOLE_SIZE
    THEN FillHands(p_idx + 1, hands, deck)
    ELSE IF deck = <<>>
    THEN [exhausted |-> TRUE, hands |-> hands, deck |-> deck]
    ELSE FillHands(p_idx, [hands EXCEPT ![p_idx] = Append(@, Head(deck))],
                   Tail(deck))

DealHands ==
    /\ pc = "deal_hands"
    /\ LET d == FillHands(1, sim_player_hands, current_deck_sim)
       IN /\ sim_player_hands' = d.hands
          /\ current_deck_sim' = d.deck
          /\ player_hands_deuces_initial' =
                KnownHandsAfterDeal(player_hands_deuces_initial, d.hands)
          /\ IF d.exhausted
             THEN /\ raised' = [kind |-> "Exception: deck ran out dealing player hands",
                                named |-> <<>>]
                  /\ pc' = "raised"
             ELSE raised' = raised /\ pc' = "deal_community"
    /\ UNCHANGED <<inputs, player_results, known_cards_deuces,
                   community_cards_deuces_initial, trials_started, trials_done,
                   sim_community_cards, player_scores, winners, final_results,
                   card_vars, hand_vars, ui_vars>>

\* lines 124-129: the board draws until it holds five cards
RECURSIVE FillBoard(_, _)
FillBoard(board, deck) ==
    IF Len(board) >= BOARD_SIZE
    THEN [exhausted |-> FALSE, board |-> board, deck |-> deck]
    ELSE IF deck = <<>>
    THEN [exhausted |-> TRUE, board |-> board, deck |-> deck]
    ELSE FillBoard(Append(board, Head(deck)), Tail(deck))

DealCommunity ==
    /\ pc = "deal_community"
    /\ LET d == FillBoard(sim_community_cards, current_deck_sim)
       IN /\ sim_community_cards' = d.board
          /\ current_deck_sim' = d.deck
          /\ community_cards_deuces_initial' =
                KnownBoardAfterDeal(community_cards_deuces_initial, d.board)
          /\ IF d.exhausted
             THEN /\ raised' = [kind |-> "Exception: deck ran out dealing community cards",
                                named |-> <<>>]
                  /\ pc' = "raised"
             ELSE raised' = raised /\ pc' = "showdown"
    /\ UNCHANGED <<inputs, player_results, known_cards_deuces,
                   player_hands_deuces_initial, trials_started, trials_done,
                   sim_player_hands, player_scores, winners, final_results,
                   card_vars, hand_vars, ui_vars>>

\* max() taken for min(): the weakest hand wins
MaxScore(scores) ==
    CHOOSE m \in SetOf(scores) : \A x \in SetOf(scores) : m >= x

\* line 136: min_score = min(player_scores)
MinScore(scores) ==
    CHOOSE m \in SetOf(scores) : \A x \in SetOf(scores) : m <= x

\* line 137: winners = [i for i, score in enumerate(player_scores) if score == min_score]
Winners(scores) == {i \in DOMAIN scores : scores[i] = MinScore(scores)}

\* every winner counted as a win, tied or not
UpdateResultsAllWin(results, w) ==
    [i \in DOMAIN results |->
        IF i \in w THEN [results[i] EXCEPT !.wins = @ + 1] ELSE results[i]]

\* lines 139-143: one winner wins, several winners tie
UpdateResults(results, w) ==
    IF Cardinality(w) = 1
    THEN [i \in DOMAIN results |->
            IF i \in w THEN [results[i] EXCEPT !.wins = @ + 1] ELSE results[i]]
    ELSE [i \in DOMAIN results |->
            IF i \in w THEN [results[i] EXCEPT !.ties = @ + 1] ELSE results[i]]

\* lines 131-143.  evaluator.evaluate raises a KeyError for a player whose
\* hole cards and the board are not 5, 6 or 7 cards together; min() of no
\* scores raises a ValueError.
Showdown ==
    /\ pc = "showdown"
    /\ LET n == num_total_players
           bad == {p \in 1..n :
                     EvaluateRaises(sim_community_cards, sim_player_hands[p])}
           first == CHOOSE p \in bad : \A q \in bad : p <= q
           scores == [p \in 1..n |->
                        evaluate(sim_community_cards, sim_player_hands[p])]
       IN IF bad # {}
          THEN /\ player_scores' = [p \in 1..(first - 1) |-> scores[p]]
               /\ raised' = [kind |-> "KeyError: evaluator hand size", named |-> <<>>]
               /\ pc' = "raised"
               /\ UNCHANGED <<winners, player_results, trials_done>>
          ELSE /\ player_scores' = scores
               /\ IF n = 0
                  THEN /\ raised' = [kind |-> "ValueError: min() of an empty list",
                                     named |-> <<>>]
                       /\ pc' = "raised"
                       /\ UNCHANGED <<winners, player_results, trials_done>>
                  ELSE /\ winners' = Winners(scores)
                       /\ player_results' = UpdateResults(player_results, Winners(scores))
                       /\ trials_done' = trials_done + 1
                       /\ raised' = raised
                       /\ pc' = "loop"
    /\ UNCHANGED <<inputs, parsed, trials_started, trial, final_results,
                   card_vars, hand_vars, ui_vars>>

\* lines 145-152: (count / num_simulations) * 100, kept as the fraction
\* num/den it is; a division by num_simulations = 0 is a ZeroDivisionError
Percent(count, n) == [num |-> count * 100, den |-> n]

Return ==
    /\ pc = "loop"
    /\ trials_started >= num_simulations
    /\ IF num_simulations = 0 /\ Len(player_results) > 0
       THEN /\ raised' = [kind |-> "ZeroDivisionError", named |-> <<>>]
            /\ pc' = "raised"
            /\ UNCHANGED final_results
       ELSE /\ final_results' = [i \in DOMAIN player_results |->
                   [wins |-> Percent(player_results[i].wins, num_simulations),
                    ties |-> Percent(player_results[i].ties, num_simulations)]]
            /\ pc' = "returned"
            /\ UNCHANGED raised
    /\ UNCHANGED <<inputs, player_results, parsed, trials_started, trials_done,
                   trial, player_scores, winners, card_vars, hand_vars, ui_vars>>

(***************************************************************************)
(* The calls of run_simulation the model makes.  The hero's hand is        *)
(* unspecified, one card (as calculate_odds passes it, with a blank), two  *)
(* cards, two cards in the text form of app.py's DECK, a card twice, or    *)
(* three cards; a second hand may follow; the community cards are the      *)
(* first 0..6 of a royal flush in spades and a nine, or hold a blank, a    *)
(* repeated card or DECK's text form.                                      *)
(***************************************************************************)
\* app.py, lines 6-8
SUITS == <<"H", "D", "C", "S">>

RANKS == <<"2", "3", "4", "5", "6", "7", "8", "9", "T", "J", "Q", "K", "A">>

\* DECK as a set; the list is sorted([r + s for r in RANKS for s in SUITS])
DECK == {<<RANKS[r], SUITS[u]>> : r \in 1..13, u \in 1..4}

Blank == <<>>

HeroHands == {
    <<>>,
    <<<<"A", "h">>, <<"A", "d">>>>,
    <<<<"A", "h">>, Blank>>,
    <<<<"A", "h">>, <<"A", "h">>>>,
    <<<<"A", "H">>, <<"A", "D">>>>,
    <<<<"A", "H">>, <<"A", "H">>>>,
    <<<<"A", "h">>, <<"A", "d">>, <<"A", "c">>>> }

VillainHands == {
    <<>>,
    <<<<"K", "h">>, <<"K", "d">>>>,
    <<<<"A", "d">>, <<"K", "d">>>>,
    <<<<"A", "c">>, <<"A", "s">>>> }

HandLists == {<<>>} \cup {<<h>> : h \in HeroHands}
                    \cup {<<h, v>> : h \in HeroHands, v \in VillainHands}

BoardTexts == <<<<"A", "s">>, <<"K", "s">>, <<"Q", "s">>, <<"J", "s">>,
                <<"T", "s">>, <<"9", "s">>>>

Boards == {SubSeq(BoardTexts, 1, k) : k \in 0..6} \cup {
    <<<<"A", "s">>, <<"K", "s">>, <<"Q", "s">>, Blank>>,
    <<<<"K", "c">>, <<"2", "c">>, <<"K", "c">>>>,
    <<<<"A", "S">>, <<"K", "S">>, <<"Q", "S">>>> }

\* the calls: player_hands_str_initial, community_cards_str_initial,
\* num_total_players, num_simulations
SmallCalls == HandLists \X Boards \X (0..MaxSmallPlayers) \X (0..MaxTrials)

\* a full table: no hand, the hero's, the hero's one card, or two hands,
\* before the flop, on the flop, the turn and the river
TableHandLists == {
    <<>>,
    <<<<<<"A", "h">>, <<"A", "d">>>>>>,
    <<<<<<"A", "h">>, Blank>>>>,
    <<<<<<"A", "h">>, <<"A", "d">>>>, <<<<"K", "h">>, <<"K", "d">>>>>> }

TableCalls == TableHandLists \X {SubSeq(BoardTexts, 1, k) : k \in {0, 3, 4, 5}}
                  \X {MAX_TABLE} \X (1..MaxTrials)

\* more players than the deck has cards for
BigCalls == {<<>>} \X {<<>>} \X {TooManyPlayers - 3, TooManyPlayers} \X {1}

Calls == SmallCalls \cup TableCalls \cup BigCalls

\* the result of a call not made yet
NoCard == [raised |-> "not called", card |-> 0]

NoHand == [raised |-> "not called", score |-> 0, class |-> ""]

CardIdle == card_str = <<>> /\ card_result = NoCard

HandIdle ==
    /\ hole_cards_str = <<>>
    /\ community_cards_str = <<>>
    /\ hand_result = NoHand
    /\ evaluator_sizes = <<>>

SimIdle ==
    /\ player_hands_str_initial = <<>>
    /\ community_cards_str_initial = <<>>
    /\ num_total_players = 0
    /\ num_simulations = 0
    /\ pc = "idle"
    /\ raised = NoError
    /\ player_results = <<>>
    /\ known_cards_deuces = {}
    /\ player_hands_deuces_initial = <<>>
    /\ community_cards_deuces_initial = <<>>
    /\ trials_started = 0
    /\ trials_done = 0
    /\ current_deck_sim = <<>>
    /\ sim_player_hands = <<>>
    /\ sim_community_cards = <<>>
    /\ player_scores = <<>>
    /\ winners = {}
    /\ final_results = <<>>

\* no PokerOddsApp is built
UiIdle ==
    /\ your_card_vars = <<>>
    /\ community_card_vars = <<>>
    /\ your_card_combos = <<>>
    /\ community_card_combos = <<>>
    /\ num_opponents_var = ""
    /\ win_percentage_var = ""
    /\ tie_percentage_var = ""
    /\ messagebox = ""

Init ==
    /\ \E c \in Calls :
          /\ player_hands_str_initial = c[1]
          /\ community_cards_str_initial = c[2]
          /\ num_total_players = c[3]
          /\ num_simulations = c[4]
    /\ pc = "call"
    /\ raised = NoError
    /\ player_results = <<>>
    /\ known_cards_deuces = {}
    /\ player_hands_deuces_initial = <<>>
    /\ community_cards_deuces_initial = <<>>
    /\ trials_started = 0
    /\ trials_done = 0
    /\ current_deck_sim = <<>>
    /\ sim_player_hands = <<>>
    /\ sim_community_cards = <<>>
    /\ player_scores = <<>>
    /\ winners = {}
    /\ final_results = <<>>
    /\ CardIdle
    /\ HandIdle
    /\ UiIdle

Next ==
    \/ Validate
    \/ StartTrial
    \/ DealHands
    \/ DealCommunity
    \/ Showdown
    \/ Return

Spec == Init /\ [][Next]_vars

(***************************************************************************)
(* card_str_to_deuces_card called on its own, on every rank with every     *)
(* suit letter in either case and on texts that are no card.               *)
(***************************************************************************)
SUIT_LETTERS == {"s", "h", "d", "c", "S", "H", "D", "C"}

CardTexts == {<<STR_RANKS[r], u>> : r \in 1..13, u \in SUIT_LETTERS} \cup {
    <<>>, <<"A">>, <<"A", "s", "s">>, <<"1", "s">>, <<"a", "s">>, <<"A", "x">> }

InitCard ==
    /\ card_str \in CardTexts
    /\ card_result = NoCard
    /\ SimIdle
    /\ HandIdle
    /\ UiIdle

Convert ==
    /\ card_result = NoCard
    /\ card_str \in CardTexts
    /\ card_result' = card_str_to_deuces_card(card_str)
    /\ UNCHANGED <<card_str, sim_vars, hand_vars, ui_vars>>

NextCard == Convert

SpecCard == InitCard /\ [][NextCard]_vars

(***************************************************************************)
(* get_hand_strength, lines 17-55, called on its own.  evaluator_sizes     *)
(* lists the number of cards of every hand the call gave the evaluator.    *)
(***************************************************************************)
\* lines 41-42: [card_str_to_deuces_card(c) for c in ...]; no token is skipped
RECURSIVE ConvertAll(_, _)
ConvertAll(tokens, acc) ==
    IF tokens = <<>> THEN [raised |-> "none", cards |-> acc]
    ELSE LET card_d == card_str_to_deuces_card(Head(tokens))
         IN IF card_d.raised # "none"
            THEN [raised |-> card_d.raised, cards |-> acc]
            ELSE ConvertAll(Tail(tokens), Append(acc, card_d.card))

\* line 30: if not hole_cards_str or len(hole_cards_str) != 2
BadHoleCards(hole) == Len(hole) = 0 \/ Len(hole) # HOLE_SIZE

\* line 37: if not (0 <= len(community_cards_str) <= 5)
BadCommunityCards(community) == ~(0 <= Len(community) /\ Len(community) <= BOARD_SIZE)

HandRaise(kind) == [raised |-> kind, score |-> 0, class |-> ""]

get_hand_strength(hole, community) ==
    LET h == ConvertAll(hole, <<>>)
        c == ConvertAll(community, <<>>)
        score == evaluate(c.cards, h.cards)
    IN IF BadHoleCards(hole)
       THEN [result |-> HandRaise("ValueError: hole cards must be two cards"),
             sizes |-> <<>>]
       ELSE IF BadCommunityCards(community)
       THEN [result |-> HandRaise("ValueError: community cards must be 0 to 5 cards"),
             sizes |-> <<>>]
       ELSE IF h.raised # "none"
       THEN [result |-> HandRaise(h.raised), sizes |-> <<>>]
       ELSE IF c.raised # "none"
       THEN [result |-> HandRaise(c.raised), sizes |-> <<>>]
       ELSE IF EvaluateRaises(c.cards, h.cards)
       THEN [result |-> HandRaise("KeyError: evaluator hand size"),
             sizes |-> <<Len(c.cards) + Len(h.cards)>>]
       ELSE [result |-> [raised |-> "none", score |-> score,
                         class |-> RANK_CLASS_TO_STRING[
                             HandValue(SetOf(c.cards \o h.cards))[1] + 1]],
             sizes |-> <<Len(c.cards) + Len(h.cards)>>]

HoleTexts == <<<<"A", "s">>, <<"K", "s">>, <<"Q", "h">>>>

HoleInputs == {SubSeq(HoleTexts, 1, k) : k \in 0..3} \cup {
    <<<<"A", "s">>, <<"K", "S">>>>,
    <<<<"A", "s">>, Blank>> }

CommunityTexts == <<<<"Q", "s">>, <<"J", "s">>, <<"T", "s">>, <<"9", "d">>,
                    <<"2", "c">>, <<"3", "c">>>>

CommunityInputs == {SubSeq(CommunityTexts, 1, k) : k \in 0..6} \cup {
    <<<<"Q", "s">>, <<"J", "s">>, <<"T", "S">>>>,
    <<<<"Q", "s">>, <<"J">>>> }

InitHand ==
    /\ hole_cards_str \in HoleInputs
    /\ community_cards_str \in CommunityInputs
    /\ hand_result = NoHand
    /\ evaluator_sizes = <<>>
    /\ SimIdle
    /\ CardIdle
    /\ UiIdle

HandStrength ==
    /\ hand_result = NoHand
    /\ hole_cards_str \in HoleInputs
    /\ LET r == get_hand_strength(hole_cards_str, community_cards_str)
       IN hand_result' = r.result /\ evaluator_sizes' = r.sizes
    /\ UNCHANGED <<hole_cards_str, community_cards_str, sim_vars, card_vars, ui_vars>>

NextHand == HandStrength

SpecHand == InitHand /\ [][NextHand]_vars

(***************************************************************************)
(* app.py: PokerOddsApp.  The two hole-card and the five community-card    *)
(* Comboboxes are read-only: the user picks an entry of a Combobox's       *)
(* 'values' list, which writes its StringVar, and every write runs         *)
(* card_selected_callback, that is refresh_all_card_dropdown_values.  ""   *)
(* is Blank.  A Combobox of the model is its 'values' list.  A message box  *)
(* is modal: while one is shown (messagebox names it) the window takes no  *)
(* input, and closing it lets the handler that showed it return.           *)
(***************************************************************************)
\* the cards the user picks among: the first CardsInPlay of the sorted DECK
CardsInPlay == 3

NUM_YOUR_CARDS == 2

NUM_COMMUNITY_CARDS == 5

\* the code points of the characters of DECK's texts: sorted() orders
\* strings by them
ORD == [c \in {RANKS[r] : r \in 1..13} \cup {SUITS[u] : u \in 1..4} |->
          CASE c = "2" -> 50 [] c = "3" -> 51 [] c = "4" -> 52 [] c = "5" -> 53
            [] c = "6" -> 54 [] c = "7" -> 55 [] c = "8" -> 56 [] c = "9" -> 57
            [] c = "A" -> 65 [] c = "C" -> 67 [] c = "D" -> 68 [] c = "H" -> 72
            [] c = "J" -> 74 [] c = "K" -> 75 [] c = "Q" -> 81 [] c = "S" -> 83
            [] c = "T" -> 84]

\* a < b for two card texts
StrLess(a, b) == \/ ORD[a[1]] < ORD[b[1]]
                 \/ a[1] = b[1] /\ ORD[a[2]] < ORD[b[2]]

RECURSIVE sorted(_)
sorted(S) ==
    IF S = {} THEN <<>>
    ELSE LET least == CHOOSE x \in S : \A y \in S \ {x} : StrLess(x, y)
         IN <<least>> \o sorted(S \ {least})

\* line 8: DECK, the list
DECK_LIST == sorted(DECK)

\* every card offered, whatever is selected
WholeDeck(excluded) == DECK_LIST

\* lines 102, 113: sorted(list(set(DECK) - excluded)); the sorted list of a
\* part of DECK is the sorted DECK without the rest
Available(excluded) == SelectSeq(DECK_LIST, LAMBDA c : c \notin excluded)

\* lines 84-93
get_all_selected_cards(your, community) ==
    ({your[i] : i \in DOMAIN your} \cup {community[i] : i \in DOMAIN community})
        \ {Blank}

\* lines 107-119, from the i-th Combobox on.  selected is the set read at
\* line 101.  The set("") of line 119 is a write: it runs the callback, a
\* whole refresh, before the loop goes on.
RECURSIVE refresh_all_card_dropdown_values(_, _)
RECURSIVE RefreshFrom(_, _, _, _)
RefreshFrom(i, all_vars, all_combos, selected) ==
    IF i > Len(all_vars) THEN [vars |-> all_vars, combos |-> all_combos]
    ELSE LET current_selection == all_vars[i]
             values == IF current_selection # Blank
                       THEN <<Blank, current_selection>>
                                \o Available(selected \ {current_selection})
                       ELSE <<Blank>> \o Available(selected)
             combos == [all_combos EXCEPT ![i] = values]
         IN IF current_selection \notin SetOf(values)
            THEN LET cleared == [all_vars EXCEPT ![i] = Blank]
                     inner == refresh_all_card_dropdown_values(cleared, combos)
                 IN RefreshFrom(i + 1, inner.vars, inner.combos, selected)
            ELSE RefreshFrom(i + 1, all_vars, combos, selected)

\* lines 99-119
refresh_all_card_dropdown_values(all_vars, all_combos) ==
    RefreshFrom(1, all_vars, all_combos,
                get_all_selected_cards(SubSeq(all_vars, 1, NUM_YOUR_CARDS),
                    SubSeq(all_vars, NUM_YOUR_CARDS + 1, Len(all_vars))))

\* var.set(text) on the i-th StringVar and the callback of lines 95-97
WriteVar(i, text, all_vars, all_combos) ==
    refresh_all_card_dropdown_values([all_vars EXCEPT ![i] = text], all_combos)

\* lines 191-194: var.set("") on every StringVar from the i-th on
RECURSIVE ClearFrom(_, _, _)
ClearFrom(i, all_vars, all_combos) ==
    IF i > Len(all_vars) THEN [vars |-> all_vars, combos |-> all_combos]
    ELSE LET w == WriteVar(i, Blank, all_vars, all_combos)
         IN ClearFrom(i + 1, w.vars, w.combos)

\* lines 104-105
AllVars == your_card_vars \o community_card_vars

AllCombos == your_card_combos \o community_card_combos

\* the StringVars and Comboboxes become those of ui
SetCards(ui) ==
    /\ your_card_vars' = SubSeq(ui.vars, 1, NUM_YOUR_CARDS)
    /\ community_card_vars' = SubSeq(ui.vars, NUM_YOUR_CARDS + 1, Len(ui.vars))
    /\ your_card_combos' = SubSeq(ui.combos, 1, NUM_YOUR_CARDS)
    /\ community_card_combos' = SubSeq(ui.combos, NUM_YOUR_CARDS + 1, Len(ui.combos))

\* lines 11-82: __init__
InitUI ==
    /\ LET blank == [i \in 1..(NUM_YOUR_CARDS + NUM_COMMUNITY_CARDS) |-> Blank]
           values == [i \in 1..(NUM_YOUR_CARDS + NUM_COMMUNITY_CARDS) |->
                         <<Blank>> \o DECK_LIST]
           ui == refresh_all_card_dropdown_values(blank, values)
       IN /\ your_card_vars = SubSeq(ui.vars, 1, NUM_YOUR_CARDS)
          /\ community_card_vars = SubSeq(ui.vars, NUM_YOUR_CARDS + 1, Len(ui.vars))
          /\ your_card_combos = SubSeq(ui.combos, 1, NUM_YOUR_CARDS)
          /\ community_card_combos =
                 SubSeq(ui.combos, NUM_YOUR_CARDS + 1, Len(ui.combos))
    /\ num_opponents_var = "1"
    /\ win_percentage_var = "0.00%"
    /\ tie_percentage_var = "0.00%"
    /\ messagebox = ""
    /\ SimIdle
    /\ CardIdle
    /\ HandIdle

\* the user picks an entry of the i-th Combobox: a card or the empty entry
Pickable == {DECK_LIST[k] : k \in 1..CardsInPlay} \cup {Blank}

SelectCard ==
    /\ messagebox = ""
    /\ \E i \in DOMAIN AllVars :
          \E text \in SetOf(AllCombos[i]) \cap Pickable :
              SetCards(WriteVar(i, text, AllVars, AllCombos))
    /\ UNCHANGED <<num_opponents_var, win_percentage_var, tie_percentage_var,
                   messagebox, sim_vars, card_vars, hand_vars>>

\* line 53: the Spinbox offers 1..8 and takes any text typed into it
OpponentTexts == {"1", "9", "x"}

SetOpponents ==
    /\ messagebox = ""
    /\ \E text \in OpponentTexts \ {num_opponents_var} : num_opponents_var' = text
    /\ UNCHANGED <<your_card_vars, community_card_vars, your_card_combos,
                   community_card_combos, win_percentage_var, tie_percentage_var,
                   messagebox, sim_vars, card_vars, hand_vars>>

\* lines 191-194 and 201: the StringVars and Comboboxes reset_all leaves
ResetCards ==
    LET cleared == ClearFrom(1, AllVars, AllCombos)
    IN refresh_all_card_dropdown_values(cleared.vars, cleared.combos)

\* lines 190-204
reset_all ==
    /\ messagebox = ""
    /\ SetCards(ResetCards)
    /\ win_percentage_var' = "0.00%"
    /\ tie_percentage_var' = "0.00%"
    /\ num_opponents_var' = "1"
    /\ UNCHANGED <<messagebox, sim_vars, card_vars, hand_vars>>

\* int(text), line 145
IntValue == [t \in {"0", "1", "2", "3", "4", "5", "6", "7", "8", "9"} |->
               CASE t = "0" -> 0 [] t = "1" -> 1 [] t = "2" -> 2 [] t = "3" -> 3
                 [] t = "4" -> 4 [] t = "5" -> 5 [] t = "6" -> 6 [] t = "7" -> 7
                 [] t = "8" -> 8 [] t = "9" -> 9]

\* the exception run_simulation raises at lines 71-96 for a call, or NoError
RunSimulationRaises(hands_str, community_str, n) ==
    LET hs == ParseHands(1, n, hands_str, {}, <<>>)
        cs == ParseCards(community_str, hs.known, <<>>)
    IN IF hs.error # NoError THEN hs.error
       ELSE IF cs.error # NoError THEN cs.error
       ELSE IF TooManyCommunity(cs.cards)
       THEN [kind |-> "ValueError: more than 5 community cards", named |-> <<>>]
       ELSE NoError

\* lines 122-187.  The percentages of a call that returns are not computed
\* here: the labels then show "computed".
calculate_odds ==
    /\ messagebox = ""
    /\ LET your_hand == SelectSeq(your_card_vars, LAMBDA t : t # Blank)
           community_cards == SelectSeq(community_card_vars, LAMBDA t : t # Blank)
           your_hand_for_sim ==
               IF Len(your_hand) = 1
               THEN IF your_card_vars[1] # Blank
                    THEN <<your_card_vars[1], Blank>>
                    ELSE <<Blank, your_card_vars[2]>>
               ELSE your_hand
           num_opponents == IntValue[num_opponents_var]
           error == RunSimulationRaises(<<your_hand_for_sim>>, community_cards,
                                        1 + num_opponents)
       IN IF Len(your_hand) = 0
          THEN /\ messagebox' = "showwarning: select a hole card"
               /\ UNCHANGED <<win_percentage_var, tie_percentage_var>>
          ELSE IF Len(community_cards) \notin {0, 3, 4, 5}
          THEN /\ messagebox' = "showwarning: 0, 3, 4 or 5 community cards"
               /\ UNCHANGED <<win_percentage_var, tie_percentage_var>>
          ELSE IF num_opponents_var \notin DOMAIN IntValue
          THEN /\ messagebox' = "showwarning: opponents must be a number"
               /\ UNCHANGED <<win_percentage_var, tie_percentage_var>>
          ELSE IF ~(1 <= num_opponents /\ num_opponents <= MAX_TABLE - 1)
          THEN /\ messagebox' = "showwarning: 1 to 8 opponents"
               /\ UNCHANGED <<win_percentage_var, tie_percentage_var>>
          ELSE IF error # NoError
          THEN /\ messagebox' = "showerror: ValueError"
               /\ UNCHANGED <<win_percentage_var, tie_percentage_var>>
          ELSE /\ messagebox' = "showinfo: done"
               /\ win_percentage_var' = "computed"
               /\ tie_percentage_var' = "computed"
    /\ UNCHANGED <<your_card_vars, community_card_vars, your_card_combos,
                   community_card_combos, num_opponents_var, sim_vars,
                   card_vars, hand_vars>>

\* the user closes the message box
CloseMessage ==
    /\ messagebox # ""
    /\ messagebox' = ""
    /\ UNCHANGED <<your_card_vars, community_card_vars, your_card_combos,
                   community_card_combos, num_opponents_var, win_percentage_var,
                   tie_percentage_var, sim_vars, card_vars, hand_vars>>

NextUI ==
    \/ SelectCard
    \/ SetOpponents
    \/ reset_all
    \/ calculate_odds
    \/ CloseMessage

SpecUI == InitUI /\ [][NextUI]_vars

(***************************************************************************)
(* What a call was given, read from its arguments.                         *)
(***************************************************************************)
Players == 1..num_total_players

\* the tokens given for player p (1-based), blanks left out
KnownHole(p) ==
    IF p <= Len(player_hands_str_initial)
    THEN SelectSeq(player_hands_str_initial[p], LAMBDA t : t # Blank)
    ELSE <<>>

KnownCommunity == SelectSeq(community_cards_str_initial, LAMBDA t : t # Blank)

\* the places of the given cards: <<p, i>> the i-th of player p, <<0, i>> the
\* i-th community card
Given == {<<p, i>> : p \in Players, i \in 1..HOLE_SIZE + 1} \cup
         {<<0, i>> : i \in 1..BOARD_SIZE + 1}

GivenPlaces == {g \in Given :
    g[2] <= Len(IF g[1] = 0 THEN KnownCommunity ELSE KnownHole(g[1]))}

TextAt(g) == IF g[1] = 0 THEN KnownCommunity[g[2]] ELSE KnownHole(g[1])[g[2]]

\* a text card_str_to_deuces_card turns into a card
Parses(t) ==
    /\ Len(t) = 2
    /\ t[1] \in SetOf(STR_RANKS)
    /\ t[2] \in SetOf(SUIT_CHARS)

\* the card a text names when the letter of the suit may be of either case
LowerSuit(u) ==
    CASE u \in {"s", "S"} -> "s" [] u \in {"h", "H"} -> "h"
      [] u \in {"d", "D"} -> "d" [] u \in {"c", "C"} -> "c" [] OTHER -> u

CardNamed(t) == <<t[1], LowerSuit(t[2])>>

\* the places of the cards a trial holds
Held == {<<p, i>> : p \in Players, i \in 1..HOLE_SIZE + 1} \cup
        {<<0, i>> : i \in 1..BOARD_SIZE + 1}

HeldPlaces == {g \in Held :
    g[2] <= Len(IF g[1] = 0 THEN sim_community_cards ELSE sim_player_hands[g[1]])}

CardAt(g) == IF g[1] = 0 THEN sim_community_cards[g[2]]
             ELSE sim_player_hands[g[1]][g[2]]

NoCounterChanged ==
    \A p \in DOMAIN player_results : player_results[p] = [wins |-> 0, ties |-> 0]

(***************************************************************************)
(* C1.  In every trial, once the hands and the board are filled, the cards *)
(* of all players and the board are pairwise distinct, every known hole    *)
(* card is in its owner's hand, every known community card is on the       *)
(* board, and no card drawn from the trial's deck is a known card.         *)
(***************************************************************************)
C1_NoCardTwiceKnownHonored ==
    pc = "showdown" =>
        /\ \A a \in HeldPlaces : \A b \in HeldPlaces :
              a # b => CardAt(a) # CardAt(b)
        /\ \A g \in GivenPlaces :
              \E h \in HeldPlaces : h[1] = g[1] /\ CardAt(h) = Card_new(TextAt(g))
        /\ \A h \in HeldPlaces :
              h[2] > Len(IF h[1] = 0 THEN KnownCommunity ELSE KnownHole(h[1]))
                => \A g \in GivenPlaces : CardAt(h) # Card_new(TextAt(g))

\* a full table whose hero and villain hold known cards on a known flop has
\* been dealt: sixteen cards were drawn for the others, two for the board
C1_Witness ==
    /\ pc = "showdown"
    /\ num_total_players = MAX_TABLE
    /\ Len(KnownHole(1)) = 2 /\ Len(KnownHole(2)) = 2
    /\ Len(KnownCommunity) = 3
    /\ \A p \in Players : Len(sim_player_hands[p]) = 2
    /\ Len(sim_community_cards) = 5

(***************************************************************************)
(* C2.  If the same card appears twice among the known hole cards of the   *)
(* players and the known community cards, the call fails with the          *)
(* duplicate-card error naming that card before any trial: no trial, no    *)
(* counter changed, no result.  (A card is named by its rank and its suit  *)
(* letter in either case.)                                                 *)
(***************************************************************************)
SameCardTwice ==
    \E a \in GivenPlaces : \E b \in GivenPlaces :
        a # b /\ CardNamed(TextAt(a)) = CardNamed(TextAt(b))

C2_DuplicateRejected ==
    (pc # "call" /\ SameCardTwice) =>
        /\ pc = "raised"
        /\ raised.kind = "ValueError: duplicate card"
        /\ \E a \in GivenPlaces : \E b \in GivenPlaces :
              /\ a # b
              /\ CardNamed(TextAt(a)) = CardNamed(TextAt(b))
              /\ raised.named = TextAt(b)
        /\ trials_started = 0
        /\ NoCounterChanged
        /\ final_results = <<>>

\* C2 holds of the calls whose card texts all have the suit letter in lower
\* case, the only texts card_str_to_deuces_card accepts (see C6): it is the
\* upper-case texts, refused as invalid before they are compared, that
\* break it
C2_LowerCaseOnly ==
    (\A g \in GivenPlaces : Parses(TextAt(g))) => C2_DuplicateRejected

(***************************************************************************)
(* C3.  In every trial the winners are exactly the players whose score is  *)
(* the minimum over all players; a single winner's win counter goes up by  *)
(* one, several winners' tie counters go up by one each and no win counter *)
(* changes; the counters of the others stay.                               *)
(***************************************************************************)
C3_WinnersCounted ==
    [][(pc = "showdown" /\ pc' = "loop") =>
        LET score(p) == evaluate(sim_community_cards, sim_player_hands[p])
            best == {p \in Players : \A q \in Players : score(p) <= score(q)}
        IN /\ winners' = best
           /\ \A p \in Players :
                /\ player_results'[p].wins = player_results[p].wins +
                      (IF best = {p} THEN 1 ELSE 0)
                /\ player_results'[p].ties = player_results[p].ties +
                      (IF p \in best /\ best # {p} THEN 1 ELSE 0)
      ]_vars

\* a trial ended in a tie of several players, another player lost it
C3_Witness ==
    /\ pc = "loop"
    /\ trials_done = 1
    /\ Cardinality(winners) > 1
    /\ \A p \in winners : player_results[p] = [wins |-> 0, ties |-> 1]
    /\ \E p \in Players : p \notin winners

(***************************************************************************)
(* C4.  After any number of trials, wins + ties of every player is at most *)
(* the number of trials done and the wins of all players together are at   *)
(* most the number of trials done; so the percentages returned have        *)
(* wins% + ties% <= 100 for every player and the wins% sum to <= 100.      *)
(***************************************************************************)
RECURSIVE SumWins(_, _)
SumWins(results, k) ==
    IF k = 0 THEN 0 ELSE results[k].wins + SumWins(results, k - 1)

RECURSIVE SumWinsNum(_, _)
SumWinsNum(results, k) ==
    IF k = 0 THEN 0 ELSE results[k].wins.num + SumWinsNum(results, k - 1)

C4_CountersBounded ==
    /\ \A p \in DOMAIN player_results :
          player_results[p].wins + player_results[p].ties <= trials_done
    /\ SumWins(player_results, Len(player_results)) <= trials_done
    /\ pc = "returned" =>
          /\ trials_done = num_simulations
          /\ \A p \in DOMAIN final_results :
                final_results[p].wins.num + final_results[p].ties.num
                    <= 100 * final_results[p].wins.den
          /\ (Len(final_results) > 0 =>
                SumWinsNum(final_results, Len(final_results))
                    <= 100 * num_simulations)

\* two trials were run and returned, one player won both
C4_Witness ==
    /\ pc = "returned"
    /\ trials_done = 2
    /\ \E p \in Players : final_results[p].wins = Percent(2, 2)

(***************************************************************************)
(* C5.  As claimed: a trial is executed only when the number of known      *)
(* community cards is 0, 3, 4 or 5, every player has 0 or 2 known hole     *)
(* cards, there are 2 to 9 players and at least one trial is asked for;    *)
(* any other input is rejected with a configuration error before the first *)
(* trial, so no call fails once a trial has started.                       *)
(***************************************************************************)
ConfigurationOk ==
    /\ Len(KnownCommunity) \in {0, 3, 4, 5}
    /\ \A p \in Players : Len(KnownHole(p)) \in {0, 2}
    /\ 2 <= num_total_players /\ num_total_players <= MAX_TABLE
    /\ num_simulations >= 1

RejectedBeforeTrials ==
    /\ pc = "raised"
    /\ raised.kind \in {"ValueError: invalid card string format",
                        "ValueError: invalid card",
                        "ValueError: duplicate card",
                        "ValueError: more than 5 community cards"}
    /\ trials_started = 0
    /\ NoCounterChanged
    /\ final_results = <<>>

ChecksPassed ==
    /\ \A g \in GivenPlaces : Parses(TextAt(g))
    /\ \A a \in GivenPlaces : \A b \in GivenPlaces :
          a # b => TextAt(a) # TextAt(b)
    /\ Len(KnownCommunity) <= 5

C6_CaseInsensitive ==
    (card_result # NoCard /\ Len(card_str) = 2
        /\ card_str[1] \in SetOf(STR_RANKS) /\ card_str[2] \in SUIT_LETTERS) =>
            /\ card_result.raised = "none"
            /\ card_result = card_str_to_deuces_card(CardNamed(card_str))

(***************************************************************************)
(* C7.  For every input run_simulation accepts, when the players are       *)
(* evaluated in a trial every player holds exactly 2 hole cards and the    *)
(* board holds exactly 5 cards.                                            *)
(***************************************************************************)
C7_SevenCardEvaluation ==
    pc = "showdown" =>
        /\ \A p \in Players : Len(sim_player_hands[p]) = 2
        /\ Len(sim_community_cards) = 5

(***************************************************************************)
(* C8.  For every input with 2 to 9 players, 0 or 2 known hole cards per   *)
(* player, 0, 3, 4 or 5 known community cards and no card twice, the deck  *)
(* of a trial always holds at least as many cards as the hole-card and     *)
(* board places still to be filled, and the call never fails for a deck    *)
(* that ran out.                                                           *)
(***************************************************************************)
RECURSIVE PlacesToFill(_)
PlacesToFill(p) ==
    IF p = 0 THEN BOARD_SIZE - Len(sim_community_cards)
    ELSE (HOLE_SIZE - Len(sim_player_hands[p])) + PlacesToFill(p - 1)

ValidTable ==
    /\ 2 <= num_total_players /\ num_total_players <= 9
    /\ \A p \in Players : Len(KnownHole(p)) \in {0, 2}
    /\ Len(KnownCommunity) \in {0, 3, 4, 5}
    /\ \A g \in GivenPlaces : Parses(TextAt(g))
    /\ \A a \in GivenPlaces : \A b \in GivenPlaces :
          a # b => TextAt(a) # TextAt(b)

C8_DeckNeverExhausted ==
    ValidTable =>
        /\ raised.kind \notin {"Exception: deck ran out dealing player hands",
                               "Exception: deck ran out dealing community cards"}
        /\ pc \in {"deal_hands", "deal_community"} =>
              Len(current_deck_sim) >= PlacesToFill(num_total_players)
        /\ pc = "deal_hands" =>
              Len(current_deck_sim) = DECK_SIZE - Cardinality(GivenPlaces)

\* nine players, nothing known: 23 cards were drawn and 29 are left
C8_Witness ==
    /\ ValidTable
    /\ num_total_players = 9
    /\ GivenPlaces = {}
    /\ pc = "showdown"
    /\ Len(current_deck_sim) = 29

(***************************************************************************)
(* C9.  Trials never change the known cards: the lists the caller gave,    *)
(* the parsed known hands, the parsed known community cards and the set of *)
(* known cards are, at the start of every trial, what they were before the *)
(* first; a trial starts from copies that hold the known cards only.       *)
(***************************************************************************)
C9_KnownCardsKept ==
    /\ [][pc # "call" => UNCHANGED <<inputs, parsed>>]_vars
    /\ [](pc = "deal_hands" =>
            /\ sim_player_hands = player_hands_deuces_initial
            /\ sim_community_cards = community_cards_deuces_initial
            /\ \A p \in Players :
                  sim_player_hands[p] =
                      [i \in 1..Len(KnownHole(p)) |-> Card_new(KnownHole(p)[i])]
            /\ sim_community_cards =
                  [i \in 1..Len(KnownCommunity) |-> Card_new(KnownCommunity[i])]
            /\ known_cards_deuces = {Card_new(TextAt(g)) : g \in GivenPlaces})

\* the second trial starts; the first dealt a card to the hero's one known
C9_Witness ==
    /\ pc = "deal_hands"
    /\ trials_started = 2
    /\ trials_done = 1
    /\ Len(KnownHole(1)) = 1
    /\ Len(sim_player_hands[1]) = 1

(***************************************************************************)
(* C10.  get_hand_strength fails with an invalid-hand-size error whenever  *)
(* the hole cards and the community cards together are not 5, 6 or 7       *)
(* cards, and never passes such a set of cards to the evaluator.           *)
(***************************************************************************)
C10_HandSizeChecked ==
    (hand_result # NoHand
        /\ Len(hole_cards_str) + Len(community_cards_str) \notin {5, 6, 7}) =>
            /\ hand_result.raised # "none"
            /\ ((\A i \in DOMAIN hole_cards_str : Parses(hole_cards_str[i]))
                /\ (\A i \in DOMAIN community_cards_str : Parses(community_cards_str[i]))
                  => hand_result.raised \in
                        {"ValueError: hole cards must be two cards",
                         "ValueError: community cards must be 0 to 5 cards"})
            /\ evaluator_sizes = <<>>

(***************************************************************************)
(* C11.  In the UI, after any sequence of card selections, clearings and   *)
(* resets in the 2 hole-card and 5 community-card dropdowns, no card is    *)
(* selected in two dropdowns at once; every dropdown's offered values      *)
(* exclude all cards selected in the other dropdowns and include its own   *)
(* selection; and reset_all, from whatever state it is run in, leaves      *)
(* every dropdown empty with all 52 cards offered (ResetCards is the state *)
(* of the dropdowns that reset_all produces).                              *)
(***************************************************************************)
SelectedElsewhere(i) == {AllVars[j] : j \in DOMAIN AllVars \ {i}} \ {Blank}

C11_DropdownsExclusive ==
    /\ Len(AllVars) = NUM_YOUR_CARDS + NUM_COMMUNITY_CARDS
    /\ Len(AllCombos) = Len(AllVars)
    /\ \A i \in DOMAIN AllVars :
          /\ AllVars[i] # Blank => AllVars[i] \notin SelectedElsewhere(i)
          /\ SetOf(AllCombos[i]) \cap SelectedElsewhere(i) = {}
          /\ AllVars[i] \in SetOf(AllCombos[i])
          /\ SetOf(AllCombos[i]) \subseteq DECK \cup {Blank}
    /\ messagebox = "" =>
          LET after == ResetCards
          IN /\ Len(after.vars) = Len(AllVars)
             /\ Len(after.combos) = Len(AllVars)
             /\ \A i \in DOMAIN after.vars :
                   /\ after.vars[i] = Blank
                   /\ SetOf(after.combos[i]) \ {Blank} = DECK
                   /\ Cardinality(SetOf(after.combos[i]) \ {Blank}) = DECK_SIZE

\* a hole card and two community cards are selected, a selection was
\* cleared or never made in another dropdown, which offers every other card
C11_Witness ==
    /\ your_card_vars[1] # Blank
    /\ your_card_vars[2] = Blank
    /\ community_card_vars[1] # Blank
    /\ community_card_vars[3] # Blank
    /\ Cardinality(SetOf(AllVars) \ {Blank}) = 3
    /\ SetOf(your_card_combos[2]) \ {Blank} = DECK \ SetOf(AllVars)
    /\ SetOf(your_card_combos[1]) \ {Blank}
           = (DECK \ SetOf(AllVars)) \cup {your_card_vars[1]}

=============================================================================
